---- MODULE Spec2Model ----
(***************************************************************************)
(* lsviz: the in-memory tree index of src/python/src/lsviz/main.py.        *)
(*                                                                         *)
(* FSNode (the tree node with its all_children / visible_children shadow   *)
(* lists, the fetched_items cursor and the current_sort_state guard),      *)
(* FSModel (rowCount / canFetchMore / fetchMore / update_filter) and       *)
(* HdfsExplorer (load_hdfs_file, clear_tree, sort_expanded,                *)
(* on_node_expanded, on_section_clicked, save/restore_expansion_state).    *)
(*                                                                         *)
(* Strings are sequences of one-character strings, so that lower(),        *)
(* substring containment, startswith and lexicographic comparison are      *)
(* computed and not assumed.  A path is the sequence of its pathlib parts: *)
(* Path("/a/b") is << "/", "a", "b" >> with every part a string value,     *)
(* Path() (the root node's own path) is << >>.                             *)
(***************************************************************************)
EXTENDS Integers, Sequences, FiniteSets, TLC

\* ------------------------------------------------------------------ bounds

\* Operations called since the tree was last empty.
MaxCalls == 3
\* FSNode.BATCH is 10000 in the code (main.py:80); the model scales it down so
\* that a child list longer than one batch is reachable.
BATCH == 2

\* The ingestion cap of load_hdfs_file.
IngestionCap == 300000

\* ----------------------------------------------------------------- strings

\* The characters used, in code-point order (Python compares str by code point).
Alphabet ==
  << "-", "/", "0", "1", "2", "3", "4", "5", "6", "7", "8", "9", ":",
     "B", "F", "a", "b", "d", "f", "g", "r", "u", "v", "w", "x", "z" >>

Code(c) == CHOOSE i \in 1..Len(Alphabet) : Alphabet[i] = c

\* str.lower() on one character.
LowerChar(c) == IF c = "B" THEN "b" ELSE IF c = "F" THEN "f" ELSE c

\* str.lower()
Lower(s) == [i \in 1..Len(s) |-> LowerChar(s[i])]

\* `sub in s` for str
Contains(s, sub) ==
  \E k \in 0..(Len(s) - Len(sub)) : \A i \in 1..Len(sub) : s[k + i] = sub[i]

\* s < t for str: lexicographic by code point.
StrLess(s, t) ==
  \E k \in 1..(Len(t)) :
     /\ \A i \in 1..(k - 1) : i <= Len(s) /\ s[i] = t[i]
     /\ k - 1 <= Len(s)
     /\ (k = Len(s) + 1 \/ (k <= Len(s) /\ Code(s[k]) < Code(t[k])))

\* int(s) for a string of decimal digits (the size field matches \d+).
Digits == << "0", "1", "2", "3", "4", "5", "6", "7", "8", "9" >>
DigitValue(c) == (CHOOSE i \in 1..Len(Digits) : Digits[i] = c) - 1
RECURSIVE ParseInt(_)
ParseInt(s) ==
  IF Len(s) = 0 THEN 0
  ELSE ParseInt(SubSeq(s, 1, Len(s) - 1)) * Len(Digits) + DigitValue(s[Len(s)])

\* str.startswith("d")
StartsWithD(s) == Len(s) > 0 /\ s[1] = "d"

\* ------------------------------------------------------------------- paths

RootPath == << >>
Slash == << <<"/">> >>

\* Path.name: the final part, "" for "/" and for Path().
PathName(p) == IF Len(p) <= 1 THEN << >> ELSE p[Len(p)]

\* path.parents[::-1]: the proper ancestors, "/" first.
ParentsRootFirst(p) == [k \in 1..(Len(p) - 1) |-> SubSeq(p, 1, k)]

\* ------------------------------------------------------------------ FSNode

\* parent = None (the root)
NoParent == 0

\* current_sort_state is None or a Sorting: the empty sequence or << sorting >>.
None == << >>
Some(x) == << x >>

\* class Column(IntEnum)
Column == [ Name |-> 0, Size |-> 1, Modified |-> 2, Permissions |-> 3, Owner |-> 4 ]

\* Qt.SortOrder
SortOrder == { "AscendingOrder", "DescendingOrder" }

\* @dataclass Sorting: equality is by value (column, order).
Sorting(column, order) == [ column |-> column, order |-> order ]

\* FSNode.__init__: the attributes fixed at construction.
FSNode(path, size, modified, permissions, owner, parent) ==
  [ path        |-> path,
    name        |-> PathName(path),
    name_lower  |-> Lower(PathName(path)),
    is_dir      |-> (Len(permissions) = 0 \/ StartsWithD(permissions)),
    parent      |-> parent,
    size        |-> size,
    modified    |-> modified,
    permissions |-> permissions,
    owner       |-> owner ]

\* A tree is the record of the per-node attributes, each indexed by node
\* identity (1 is the root): nodes (the constructor's attributes),
\* all_children, visible_children, fetched_items, current_sort_state.
EmptyTree ==
  [ nodes |-> << >>, all_children |-> << >>, visible_children |-> << >>,
    fetched_items |-> << >>, current_sort_state |-> << >> ]

\* FSNode.__init__: a new node joins the tree with empty child lists,
\* fetched_items = BATCH and no sort state.  Its identity is Len(t.nodes) + 1.
NewNode(t, rec) ==
  [ nodes              |-> Append(t.nodes, rec),
    all_children       |-> Append(t.all_children, << >>),
    visible_children   |-> Append(t.visible_children, << >>),
    fetched_items      |-> Append(t.fetched_items, BATCH),
    current_sort_state |-> Append(t.current_sort_state, None) ]

\* append_child that forgets the all_children list.
append_child_visible_only(t, p, child) ==
  [ t EXCEPT !.visible_children[p]   = Append(@, child),
             !.current_sort_state[p] = None ]

\* append_child that leaves current_sort_state as it was.
append_child_keeps_sort_state(t, p, child) ==
  [ t EXCEPT !.all_children[p]     = Append(@, child),
             !.visible_children[p] = Append(@, child) ]

\* FSNode.append_child
append_child(t, p, child) ==
  [ t EXCEPT !.all_children[p]       = Append(@, child),
             !.visible_children[p]   = Append(@, child),
             !.current_sort_state[p] = None ]

\* filter_children with the `or child.is_dir` clause dropped: directories are
\* filtered by name like files.
filter_children_names_only(t, n, filter_text) ==
  IF Len(filter_text) = 0
    THEN t.all_children[n]
    ELSE SelectSeq(t.all_children[n],
                   LAMBDA c : Contains(t.nodes[c].name_lower, filter_text))

\* filter_children that extends visible_children with the matches instead of
\* replacing it.
filter_children_extend(t, n, filter_text) ==
  IF Len(filter_text) = 0
    THEN t.all_children[n]
    ELSE t.visible_children[n] \o
         SelectSeq(t.all_children[n],
                   LAMBDA c : Contains(t.nodes[c].name_lower, filter_text)
                              \/ t.nodes[c].is_dir)

\* FSNode.apply_filter on one node: the list comprehension (or the copy).
filter_children(t, n, filter_text) ==
  IF Len(filter_text) = 0
    THEN t.all_children[n]
    ELSE SelectSeq(t.all_children[n],
                   LAMBDA c : Contains(t.nodes[c].name_lower, filter_text)
                              \/ t.nodes[c].is_dir)

\* FSNode.apply_filter: this node, then every directory child of all_children.
RECURSIVE apply_filter(_, _, _)
RECURSIVE apply_filter_children(_, _, _, _)
apply_filter(t, n, filter_text) ==
  apply_filter_children(
    [ t EXCEPT !.visible_children[n] = filter_children(t, n, filter_text) ],
    n, filter_text, 1)

apply_filter_children(t, n, filter_text, i) ==
  IF i > Len(t.all_children[n]) THEN t
  ELSE LET child == t.all_children[n][i]
           t1    == IF t.nodes[child].is_dir
                      THEN apply_filter(t, child, filter_text)
                      ELSE t
       IN  apply_filter_children(t1, n, filter_text, i + 1)

\* sort_key with dir_first = node.is_dir, whatever the direction.
sort_key_dirs_unreversed(t, c, sorting) ==
  LET node      == t.nodes[c]
      dir_first == node.is_dir
  IN  IF sorting.column = Column.Name
        THEN [ error |-> FALSE, first |-> dir_first, str |-> TRUE, second |-> node.name_lower ]
      ELSE IF sorting.column = Column.Size
        THEN IF node.is_dir
               THEN [ error |-> FALSE, first |-> dir_first, str |-> TRUE, second |-> node.name_lower ]
               ELSE [ error |-> FALSE, first |-> dir_first, str |-> FALSE, second |-> node.size ]
      ELSE IF sorting.column = Column.Modified
        THEN [ error |-> FALSE, first |-> FALSE, str |-> TRUE, second |-> node.modified ]
      ELSE IF sorting.column = Column.Permissions
        THEN [ error |-> FALSE, first |-> FALSE, str |-> TRUE, second |-> node.permissions ]
      ELSE IF sorting.column = Column.Owner
        THEN [ error |-> FALSE, first |-> FALSE, str |-> TRUE, second |-> node.owner ]
      ELSE [ error |-> TRUE, first |-> FALSE, str |-> TRUE, second |-> << >> ]

\* The tuple sort_key(node) returns: (first, second), second a str or an int.
\* "error" is the ValueError raised for an unknown column.
sort_key(t, c, sorting) ==
  LET node      == t.nodes[c]
      reverse   == sorting.order = "DescendingOrder"
      dir_first == (node.is_dir = reverse)
  IN  IF sorting.column = Column.Name
        THEN [ error |-> FALSE, first |-> dir_first, str |-> TRUE, second |-> node.name_lower ]
      ELSE IF sorting.column = Column.Size
        THEN IF node.is_dir
               THEN [ error |-> FALSE, first |-> dir_first, str |-> TRUE, second |-> node.name_lower ]
               ELSE [ error |-> FALSE, first |-> dir_first, str |-> FALSE, second |-> node.size ]
      ELSE IF sorting.column = Column.Modified
        THEN [ error |-> FALSE, first |-> FALSE, str |-> TRUE, second |-> node.modified ]
      ELSE IF sorting.column = Column.Permissions
        THEN [ error |-> FALSE, first |-> FALSE, str |-> TRUE, second |-> node.permissions ]
      ELSE IF sorting.column = Column.Owner
        THEN [ error |-> FALSE, first |-> FALSE, str |-> TRUE, second |-> node.owner ]
      ELSE [ error |-> TRUE, first |-> FALSE, str |-> TRUE, second |-> << >> ]

\* k1 < k2 for two key tuples: False < True, then the second components.
\* (Keys with equal first components always have second components of one type.)
KeyLess(k1, k2) ==
  IF k1.first # k2.first THEN k2.first
  ELSE IF k1.str /\ k2.str THEN StrLess(k1.second, k2.second)
  ELSE IF ~k1.str /\ ~k2.str THEN k1.second < k2.second
  ELSE FALSE

\* list.sort(key=..., reverse=...): a stable sort; with reverse the order is
\* descending and equal elements still keep their original relative order.
\* Insertion of x into an already sorted prefix, behind every element that
\* does not have to follow it.
RECURSIVE InsertSorted(_, _, _, _)
InsertSorted(sorted, x, key, reverse) ==
  IF Len(sorted) = 0 THEN << x >>
  ELSE LET last == sorted[Len(sorted)]
           xBeforeLast == IF reverse THEN KeyLess(key[last], key[x])
                                     ELSE KeyLess(key[x], key[last])
       IN  IF xBeforeLast
             THEN Append(InsertSorted(SubSeq(sorted, 1, Len(sorted) - 1), x, key, reverse), last)
             ELSE Append(sorted, x)

RECURSIVE ListSort(_, _, _)
ListSort(list, key, reverse) ==
  IF Len(list) = 0 THEN << >>
  ELSE InsertSorted(ListSort(SubSeq(list, 1, Len(list) - 1), key, reverse),
                    list[Len(list)], key, reverse)

\* sort that reorders but does not record the Sorting in current_sort_state.
sort_forgets_state(t, n, sorting) ==
  IF t.current_sort_state[n] = Some(sorting)
    THEN [ tree |-> t, outcome |-> "skipped" ]
  ELSE
    LET list    == t.visible_children[n]
        reverse == sorting.order = "DescendingOrder"
        key     == [ c \in { list[i] : i \in 1..Len(list) } |-> sort_key(t, c, sorting) ]
    IN  IF \E c \in DOMAIN key : key[c].error
          THEN [ tree |-> t, outcome |-> "error" ]
          ELSE [ tree    |-> [ t EXCEPT !.visible_children[n] = ListSort(list, key, reverse) ],
                 outcome |-> "sorted" ]

\* FSNode.sort: [tree, outcome].  The guard returns at once ("skipped");
\* list.sort computes the key of every element before it moves any, so a
\* ValueError from sort_key ("error") leaves the list as it was and
\* current_sort_state is not assigned; with no element sort_key is never
\* called.
sort(t, n, sorting) ==
  IF t.current_sort_state[n] = Some(sorting)
    THEN [ tree |-> t, outcome |-> "skipped" ]
  ELSE
    LET list    == t.visible_children[n]
        reverse == sorting.order = "DescendingOrder"
        key     == [ c \in { list[i] : i \in 1..Len(list) } |-> sort_key(t, c, sorting) ]
    IN  IF \E c \in DOMAIN key : key[c].error
          THEN [ tree |-> t, outcome |-> "error" ]
          ELSE [ tree    |-> [ t EXCEPT !.visible_children[n]   = ListSort(list, key, reverse),
                                        !.current_sort_state[n] = Some(sorting) ],
                 outcome |-> "sorted" ]

\* ----------------------------------------------------------------- FSModel

\* The root node is the first node constructed.
root_node == 1

\* QModelIndex: createIndex(row, 0, node); rows count from 0.
InvalidIndex == [ valid |-> FALSE, row |-> -1, ptr |-> NoParent ]
createIndex(row, node) == [ valid |-> TRUE, row |-> row, ptr |-> node ]

\* parent.internalPointer() if parent.isValid() else self.root_node
p_item(index) == IF index.valid THEN index.ptr ELSE root_node

\* FSModel.rowCount
rowCount(t, index) ==
  LET n == p_item(index)
  IN  IF Len(t.visible_children[n]) <= t.fetched_items[n]
        THEN Len(t.visible_children[n]) ELSE t.fetched_items[n]

\* FSModel.canFetchMore
canFetchMore(t, index) ==
  index.valid /\ t.fetched_items[index.ptr] < Len(t.visible_children[index.ptr])

\* fetchMore without the min: fetched_items always grows by one batch.
fetchMore_unclamped(t, index) ==
  t.fetched_items[p_item(index)] + BATCH

\* FSModel.fetchMore: the new fetched_items of the node.
fetchMore(t, index) ==
  LET n == p_item(index)
      m == t.fetched_items[n] + BATCH
  IN  IF m <= Len(t.visible_children[n]) THEN m ELSE Len(t.visible_children[n])

\* FSModel.index(row, 0, parent)
index(t, row, parent) == createIndex(row, t.visible_children[p_item(parent)][row + 1])

\* HdfsExplorer._children_indices: nothing without a model, else the indexes
\* of rows 0 .. rowCount - 1.
children_indices(t, hasModel, parent) ==
  IF ~hasModel THEN << >>
  ELSE [ i \in 1..rowCount(t, parent) |-> index(t, i - 1, parent) ]

\* ------------------------------------------------------- load_hdfs_file

\* One step of `for parent in path.parents[::-1]` (lines 356-369).
\* r = [t, node_map, cur, cur_children]; cur_children is what is left of the
\* generator: a search that finds nothing exhausts it.
resolve_parent(r, hasModel, parent) ==
  IF parent \in DOMAIN r.node_map
    THEN [ r EXCEPT !.cur = r.node_map[parent] ]
  ELSE
    LET hits == { i \in 1..Len(r.cur_children) :
                    r.t.nodes[r.cur_children[i].ptr].path = parent }
    IN  IF hits # {}
          THEN LET found == r.cur_children[CHOOSE i \in hits : \A j \in hits : i <= j]
               IN  [ t            |-> r.t,
                     node_map     |-> (parent :> found.ptr) @@ r.node_map,
                     cur          |-> found.ptr,
                     cur_children |-> children_indices(r.t, hasModel, found) ]
          ELSE LET node == Len(r.t.nodes) + 1
                   t1   == NewNode(r.t, FSNode(parent, 0, << >>, << >>, << >>, r.cur))
               IN  [ t            |-> append_child(t1, r.cur, node),
                     node_map     |-> (parent :> node) @@ r.node_map,
                     cur          |-> node,
                     cur_children |-> << >> ]

RECURSIVE resolve_parents(_, _, _, _)
resolve_parents(r, hasModel, parents, k) ==
  IF k > Len(parents) THEN r
  ELSE resolve_parents(resolve_parent(r, hasModel, parents[k]), hasModel, parents, k + 1)

\* load_entry that hangs the entry's node under the root instead of under the
\* resolved parent.
load_entry_under_root(b, hasModel, i) ==
  LET path == i.path
      r    == resolve_parents(
                [ t |-> b.t, node_map |-> b.node_map, cur |-> root_node,
                  cur_children |-> children_indices(b.t, hasModel, InvalidIndex) ],
                hasModel, ParentsRootFirst(path), 1)
      node == Len(r.t.nodes) + 1
      t1   == NewNode(r.t, FSNode(path, ParseInt(i.size), i.dt_mod, i.perms,
                                  i.owner \o << ":" >> \o i.group, root_node))
  IN  [ t        |-> append_child(t1, root_node, node),
        node_map |-> (path :> node) @@ r.node_map ]

\* The body of `for idx, i in enumerate(...)` for one entry (lines 353-385).
\* b = [t, node_map].
load_entry(b, hasModel, i) ==
  LET path == i.path
      r    == resolve_parents(
                [ t |-> b.t, node_map |-> b.node_map, cur |-> root_node,
                  cur_children |-> children_indices(b.t, hasModel, InvalidIndex) ],
                hasModel, ParentsRootFirst(path), 1)
      node == Len(r.t.nodes) + 1
      t1   == NewNode(r.t, FSNode(path, ParseInt(i.size), i.dt_mod, i.perms,
                                  i.owner \o << ":" >> \o i.group, r.cur))
  IN  [ t        |-> append_child(t1, r.cur, node),
        node_map |-> (path :> node) @@ r.node_map ]

\* The loop over the parsed entries, with its cap (lines 350-352).
RECURSIVE load_entries(_, _, _, _)
load_entries(b, hasModel, entries, idx) ==
  IF idx >= Len(entries) \/ idx = IngestionCap THEN b
  ELSE load_entries(load_entry(b, hasModel, entries[idx + 1]), hasModel, entries, idx + 1)

\* Lines 346-385: the tree after the traversal of one file list.
load_tree(t, hasModel, entries) ==
  LET t0 == IF hasModel THEN t ELSE NewNode(EmptyTree, FSNode(RootPath, 0, << >>, << >>, << >>, NoParent))
  IN  load_entries([ t |-> t0, node_map |-> (Slash :> root_node) ], hasModel, entries, 0).t

\* ----------------------------------------------------------- HdfsExplorer

\* QTreeView keeps the expanded items as a set of persistent model indexes
\* (row, node).  The model never calls changePersistentIndex, so an index
\* stored before a reordering keeps its old row.
\* QTreeView.isExpanded(index)
isExpanded(expanded, idx) == idx \in expanded

\* HdfsExplorer.sort_expanded, on a view with a model: the tree after it.
\* model.sorting is set by FSModel.sort from a header section, so
\* FSNode.sort does not raise here.
RECURSIVE sort_expanded(_, _, _, _)
RECURSIVE sort_expanded_children(_, _, _, _, _)
sort_expanded(t, expanded, sorting, idx) ==
  IF idx.valid /\ ~t.nodes[idx.ptr].is_dir THEN t
  ELSE LET t1 == IF idx.valid /\ rowCount(t, idx) > 1
                   THEN sort(t, idx.ptr, sorting).tree
                   ELSE t
       IN  sort_expanded_children(t1, expanded, sorting, idx, 0)

sort_expanded_children(t, expanded, sorting, idx, row) ==
  IF row >= rowCount(t, idx) THEN t
  ELSE LET child_index == index(t, row, idx)
           t1 == IF isExpanded(expanded, child_index)
                   THEN sort_expanded(t, expanded, sorting, child_index)
                   ELSE t
       IN  sort_expanded_children(t1, expanded, sorting, idx, row + 1)

\* HdfsExplorer.on_node_expanded, the slot of QTreeView.expanded.
on_node_expanded(v, sorting, idx) ==
  [ v EXCEPT !.t = sort_expanded(v.t, v.expanded, sorting, idx) ]

\* QTreeView.setExpanded(index, state) on a view v = [t, expanded]: expanding
\* an invalid or an already expanded index does nothing; a newly expanded
\* index is stored and the expanded signal runs on_node_expanded; collapsing
\* removes the index.
setExpanded(v, sorting, idx, state) ==
  IF ~idx.valid THEN v
  ELSE IF state
    THEN IF isExpanded(v.expanded, idx) THEN v
         ELSE on_node_expanded([ v EXCEPT !.expanded = @ \cup { idx } ], sorting, idx)
    ELSE [ v EXCEPT !.expanded = @ \ { idx } ]

\* expand_chain without the `if len(children) != 1: break`: it always goes
\* on into the first child.
RECURSIVE expand_chain_no_break(_, _, _)
expand_chain_no_break(v, sorting, current) ==
  LET children == children_indices(v.t, TRUE, current)
  IN  IF Len(children) = 0 THEN v
      ELSE expand_chain_no_break(setExpanded(v, sorting, current, TRUE),
                                 sorting, children[1])

\* Lines 396-402: the initial single-branch expansion.
RECURSIVE expand_chain(_, _, _)
expand_chain(v, sorting, current) ==
  LET children == children_indices(v.t, TRUE, current)
  IN  IF Len(children) = 0 THEN v
      ELSE LET v1 == setExpanded(v, sorting, current, TRUE)
           IN  IF Len(children) # 1 THEN v1
               ELSE expand_chain(v1, sorting, children[1])

\* Lines 404-407: sort below every expanded child of the root.
RECURSIVE sort_expanded_top(_, _, _, _)
sort_expanded_top(t, expanded, sorting, row) ==
  IF row >= rowCount(t, InvalidIndex) THEN t
  ELSE LET child_index == index(t, row, InvalidIndex)
           t1 == IF isExpanded(expanded, child_index)
                   THEN sort_expanded(t, expanded, sorting, child_index)
                   ELSE t
       IN  sort_expanded_top(t1, expanded, sorting, row + 1)

\* HdfsExplorer.save_expansion_state: the set of FSNode objects.
RECURSIVE save_expansion_state(_, _, _)
RECURSIVE save_expansion_rows(_, _, _, _)
save_expansion_state(t, expanded, idx) == save_expansion_rows(t, expanded, idx, 0)

save_expansion_rows(t, expanded, idx, row) ==
  IF row >= rowCount(t, idx) THEN { }
  ELSE LET child_idx == index(t, row, idx)
       IN  (IF isExpanded(expanded, child_idx)
              THEN { child_idx.ptr } \cup save_expansion_state(t, expanded, child_idx)
              ELSE { })
           \cup save_expansion_rows(t, expanded, idx, row + 1)

\* HdfsExplorer.restore_expansion_state on w = [t, expanded, expanded_nodes];
\* expanded_nodes is the one set object all the recursive calls share.
RECURSIVE restore_expansion_state(_, _, _)
RECURSIVE restore_expansion_rows(_, _, _, _)
restore_expansion_state(w, sorting, idx) == restore_expansion_rows(w, sorting, idx, 0)

restore_expansion_rows(w, sorting, idx, row) ==
  IF row >= rowCount(w.t, idx) THEN w
  ELSE
    LET child_idx == index(w.t, row, idx)
        node      == child_idx.ptr
        w1 ==
          IF node \in w.expanded_nodes
            THEN LET v1 == setExpanded([ t |-> w.t, expanded |-> w.expanded ],
                                       sorting, child_idx, TRUE)
                     w2 == [ t |-> v1.t, expanded |-> v1.expanded,
                             expanded_nodes |-> w.expanded_nodes \ { node } ]
                 IN  IF w2.expanded_nodes # { }
                       THEN restore_expansion_state(w2, sorting, child_idx)
                       ELSE w2
          ELSE IF isExpanded(w.expanded, child_idx)
            THEN [ w EXCEPT !.expanded = @ \ { child_idx } ]
            ELSE w
    IN  restore_expansion_rows(w1, sorting, idx, row + 1)

\* ------------------------------------------------------------------ inputs

\* FSItem records as _parse_filelist_file yields them (every field a string).
FSItem(perms, owner, group, size, dt_mod, path) ==
  [ perms |-> perms, owner |-> owner, group |-> group, size |-> size,
    dt_mod |-> dt_mod, path |-> path ]

FilePerms == << "-", "r", "w" >>
DirPerms  == << "d", "r", "w", "x" >>

\* Paths, as parts.
P_f1   == << <<"/">>, <<"f","1">> >>
P_F2   == << <<"/">>, <<"F","2">> >>
P_b    == << <<"/">>, <<"b">> >>
P_b_f1 == << <<"/">>, <<"b">>, <<"f","1">> >>
P_b_F2 == << <<"/">>, <<"b">>, <<"F","2">> >>
P_bdf1 == << <<"/">>, <<"b">>, <<"d">>, <<"f","1">> >>

\* The entries of the file lists.
E_f1    == FSItem(FilePerms, <<"u">>, <<"g">>, <<"1","0","0">>, <<"2">>, P_f1)
E_F2    == FSItem(FilePerms, <<"v">>, <<"g">>, <<"5","0">>,     <<"1">>, P_F2)
E_bdir  == FSItem(DirPerms,  <<"u">>, <<"g">>, <<"0">>,         <<"1">>, P_b)
E_bfile == FSItem(FilePerms, <<"u">>, <<"g">>, <<"3">>,         <<"2">>, P_b)
E_b_f1  == FSItem(FilePerms, <<"u">>, <<"g">>, <<"1","0","0">>, <<"2">>, P_b_f1)
E_b_F2  == FSItem(FilePerms, <<"v">>, <<"g">>, <<"5","0">>,     <<"1">>, P_b_F2)
E_bdf1  == FSItem(FilePerms, <<"u">>, <<"g">>, <<"7">>,         <<"1">>, P_bdf1)

\* The file lists a load may read: two files and an empty directory under the
\* root; a single chain of synthesized directories down to one file; an
\* entry for a directory after the entry that synthesized it; a regular file
\* that later entries use as an ancestor; a repeated entry; a directory with
\* more children than one batch.
FileLists ==
  { << E_f1, E_F2, E_bdir >>,
    << E_bdf1 >>,
    << E_bdf1, E_bdir >>,
    << E_bfile, E_bdf1 >>,
    << E_f1, E_f1 >>,
    << E_b_F2, E_bdf1, E_b_f1 >> }

\* ------------------------------------------------------------------- state

VARIABLES
  model,               \* HdfsExplorer.model is not None
  nodes,               \* the FSNode objects of the tree, root first
  all_children,        \* FSNode.all_children, by node
  visible_children,    \* FSNode.visible_children, by node
  fetched_items,       \* FSNode.fetched_items, by node
  current_sort_state,  \* FSNode.current_sort_state, by node
  sorting,             \* FSModel.sorting
  expanded,            \* the expanded indexes of tree_view
  calls,               \* operations called since the tree was last empty
  last                 \* the last operation, its arguments and its outcome

vars == << model, nodes, all_children, visible_children, fetched_items,
           current_sort_state, sorting, expanded, calls, last >>

Tree ==
  [ nodes |-> nodes, all_children |-> all_children,
    visible_children |-> visible_children, fetched_items |-> fetched_items,
    current_sort_state |-> current_sort_state ]

SetTree(t) ==
  /\ nodes' = t.nodes
  /\ all_children' = t.all_children
  /\ visible_children' = t.visible_children
  /\ fetched_items' = t.fetched_items
  /\ current_sort_state' = t.current_sort_state

Nodes == 1..Len(nodes)

\* The record of an operation: its name, the node it was called on, its
\* argument, its outcome, and whether the operation before it was the same
\* call (same name, node and argument).
Op(op, node, arg, outcome) ==
  [ op |-> op, node |-> node, arg |-> arg, outcome |-> outcome,
    again |-> (last.op = op /\ last.node = node /\ last.arg = arg) ]

\* HdfsExplorer.__init__: no model, no tree.
Init ==
  /\ model = FALSE
  /\ nodes = << >>
  /\ all_children = << >>
  /\ visible_children = << >>
  /\ fetched_items = << >>
  /\ current_sort_state = << >>
  /\ sorting = None
  /\ expanded = { }
  /\ calls = 0
  /\ last = [ op |-> "init", node |-> NoParent, arg |-> None, outcome |-> "ok",
               again |-> FALSE ]

\* ----------------------------------------------------------------- actions

\* HdfsExplorer.load_hdfs_file(filepath) for a file that parses to `entries`:
\* [t, sorting, expanded] when it returns.  A new FSModel is given to
\* tree_view.setModel, which (sorting is enabled and the sort indicator is
\* column 0 ascending, lines 307-309) calls FSModel.sort(0, AscendingOrder);
\* the new view has nothing expanded.
load_hdfs_file(t, hasModel, srt, exp, entries) ==
  LET t1 == load_tree(t, hasModel, entries)
      s1 == IF hasModel THEN srt
                        ELSE Some(Sorting(Column.Name, "AscendingOrder"))
      v1 == expand_chain([ t |-> t1, expanded |-> exp ], s1[1], InvalidIndex)
      t2 == sort_expanded_top(v1.t, v1.expanded, s1[1], 0)
  IN  [ t |-> t2, sorting |-> s1, expanded |-> v1.expanded ]

Load(entries) ==
  /\ calls < MaxCalls
  /\ LET r == load_hdfs_file(Tree, model, sorting, expanded, entries)
     IN  /\ SetTree(r.t)
         /\ sorting' = r.sorting
         /\ expanded' = r.expanded
  /\ model' = TRUE
  /\ calls' = calls + 1
  /\ last' = Op("load", root_node, entries, "ok")

\* HdfsExplorer.clear_tree
ClearTree ==
  /\ model
  /\ model' = FALSE
  /\ SetTree(EmptyTree)
  /\ sorting' = None
  /\ expanded' = { }
  /\ calls' = 0
  /\ last' = Op("clear_tree", NoParent, None, "ok")

\* The texts typed into the search bar.
FilterTexts == { << >>, <<"f">>, <<"F","1">>, <<"f","2">>, <<"z">> }

\* HdfsExplorer.run_filter -> FSModel.update_filter(text):
\* root_node.apply_filter(text.lower()).
UpdateFilter(text) ==
  /\ model
  /\ calls < MaxCalls
  /\ calls' = calls + 1
  /\ SetTree(apply_filter(Tree, root_node, Lower(text)))
  /\ UNCHANGED << model, sorting, expanded >>
  /\ last' = Op("apply_filter", root_node, Lower(text), "ok")

\* A column index that is no member of Column.
UnknownColumn == Column.Owner + 1

\* The sort specifications handed to FSNode.sort.
Sortings ==
  { Sorting(c, o) : c \in { Column.Name, Column.Size, Column.Modified,
                            Column.Permissions, Column.Owner, UnknownColumn },
                    o \in SortOrder }

\* FSNode.sort(sorting) on one node.
NodeSort(n, s) ==
  /\ model
  /\ calls < MaxCalls
  /\ calls' = calls + 1
  /\ LET r == sort(Tree, n, s)
     IN  /\ SetTree(r.tree)
         /\ last' = Op("sort", n, s, r.outcome)
  /\ UNCHANGED << model, sorting, expanded >>

\* The indexes of the model: every row of every node, and the invalid index.
Indexes ==
  UNION { { index(Tree, row, createIndex(0, n)) : row \in 0..(rowCount(Tree, createIndex(0, n)) - 1) }
          : n \in Nodes }

\* list.index(x): the 0-based position of the first occurrence, -1 when the
\* code raises ValueError.
ListIndex(list, x) ==
  IF \E i \in 1..Len(list) : list[i] = x
    THEN (CHOOSE i \in 1..Len(list) : list[i] = x /\ \A j \in 1..(i - 1) : list[j] # x) - 1
    ELSE -1

\* FSModel.parent(index): the index of the parent node, by its position in
\* its own parent's visible_children.
ParentIndex(idx) ==
  LET p == nodes[idx.ptr].parent
  IN  IF p = root_node \/ p = NoParent THEN InvalidIndex
      ELSE LET grandparent == IF nodes[p].parent # NoParent THEN nodes[p].parent ELSE root_node
               row == ListIndex(visible_children[grandparent], p)
           IN  IF row < 0 THEN InvalidIndex ELSE createIndex(row, p)

\* FSModel.fetchMore(parent)
FetchMore(parent) ==
  /\ model
  /\ calls < MaxCalls
  /\ calls' = calls + 1
  /\ fetched_items' = [ fetched_items EXCEPT ![p_item(parent)] = fetchMore(Tree, parent) ]
  /\ UNCHANGED << model, nodes, all_children, visible_children, current_sort_state,
                  sorting, expanded >>
  /\ last' = Op("fetchMore", p_item(parent),
                \* beginInsertRows(parent, first, last)
                << fetched_items[p_item(parent)], fetchMore(Tree, parent) - 1 >>, "ok")

\* HdfsExplorer.on_section_clicked with model.sorting = s:
\* [t, expanded, saved], saved the set save_expansion_state returned.
on_section_clicked(t, exp, s) ==
  LET saved == save_expansion_state(t, exp, InvalidIndex)
      t1    == sort_expanded(t, exp, s, InvalidIndex)
      w     == restore_expansion_state(
                 [ t |-> t1, expanded |-> exp, expanded_nodes |-> saved ],
                 s, InvalidIndex)
  IN  [ t |-> w.t, expanded |-> w.expanded, saved |-> saved ]

\* A click on header section `column`: the header's sort indicator changes
\* and QTreeView calls FSModel.sort(column, order) (lines 251-252), then the
\* sectionClicked signal runs HdfsExplorer.on_section_clicked.
SectionClicked(column, order) ==
  /\ model
  /\ calls < MaxCalls
  /\ calls' = calls + 1
  /\ LET r == on_section_clicked(Tree, expanded, Sorting(column, order))
     IN  /\ sorting' = Some(Sorting(column, order))
         /\ SetTree(r.t)
         /\ expanded' = r.expanded
         /\ last' = Op("on_section_clicked", root_node, r.saved, "ok")
  /\ UNCHANGED model

\* The rows tree_view shows: every ancestor of the index is expanded.
RECURSIVE Shown(_)
Shown(idx) ==
  LET p == nodes[idx.ptr].parent
  IN  p = root_node
      \/ (ParentIndex(idx).valid /\ ParentIndex(idx) \in expanded /\ Shown(ParentIndex(idx)))

\* The user expands a shown row that has children: QTreeView stores the index
\* and the expanded signal runs HdfsExplorer.on_node_expanded.
Expand(idx) ==
  /\ model
  /\ calls < MaxCalls
  /\ calls' = calls + 1
  /\ idx \notin expanded
  /\ rowCount(Tree, idx) > 0
  /\ Shown(idx)
  /\ LET v == setExpanded([ t |-> Tree, expanded |-> expanded ], sorting[1], idx, TRUE)
     IN  /\ SetTree(v.t)
         /\ expanded' = v.expanded
  /\ UNCHANGED << model, sorting >>
  /\ last' = Op("on_node_expanded", idx.ptr, None, "ok")

\* The user collapses a shown, expanded row: QTreeView drops the index (no
\* slot is connected to the collapsed signal).
Collapse(idx) ==
  /\ model
  /\ calls < MaxCalls
  /\ calls' = calls + 1
  /\ idx \in expanded
  /\ Shown(idx)
  /\ expanded' = expanded \ { idx }
  /\ UNCHANGED << model, nodes, all_children, visible_children, fetched_items,
                  current_sort_state, sorting >>
  /\ last' = Op("collapse", idx.ptr, None, "ok")

\* The FSNode / FSModel operations on a loaded tree.
Next ==
  \/ \E entries \in FileLists : Load(entries)
  \/ ClearTree
  \/ \E text \in FilterTexts : UpdateFilter(text)
  \/ \E n \in Nodes, s \in Sortings : NodeSort(n, s)
  \/ \E parent \in Indexes \cup { InvalidIndex } : FetchMore(parent)

Spec == Init /\ [][Next]_vars

\* The window: what a user of HdfsExplorer can do.
NextView ==
  \/ \E entries \in FileLists : Load(entries)
  \/ ClearTree
  \/ \E text \in FilterTexts : UpdateFilter(text)
  \/ \E parent \in { i \in Indexes : canFetchMore(Tree, i) } : FetchMore(parent)
  \/ \E c \in { Column[f] : f \in DOMAIN Column }, o \in SortOrder : SectionClicked(c, o)
  \/ \E idx \in Indexes : Expand(idx)
  \/ \E idx \in Indexes : Collapse(idx)

SpecView == Init /\ [][NextView]_vars

\* -------------------------------------------------------------- properties

Range(list) == { list[i] : i \in 1..Len(list) }

NoDuplicates(list) == \A i, j \in 1..Len(list) : list[i] = list[j] => i = j

\* C1: in every reachable state every node has fetched_items no greater than
\* the length of its visible_children.
C1_FetchedWithinVisible ==
  \A n \in Nodes : fetched_items[n] <= Len(visible_children[n])

VisibleWithinAll ==
  \A n \in Nodes :
     /\ Range(visible_children[n]) \subseteq Range(all_children[n])
     /\ NoDuplicates(visible_children[n])

\* C2: after every step, every element of a node's visible_children is an
\* element of its all_children and occurs in visible_children once, and a
\* step of apply_filter leaves all_children of every node as it was.
C2_VisibleWithinAll ==
  [][ /\ VisibleWithinAll'
      /\ (last'.op = "apply_filter" => all_children' = all_children) ]_vars

\* C2's case: a filter that hides a child has run on a tree in which a load
\* appended children and a sort reordered them.
C2_Witness ==
  /\ last.op = "apply_filter"
  /\ \E n \in Nodes : Len(visible_children[n]) < Len(all_children[n])
  /\ \E n \in Nodes : current_sort_state[n] # None /\ Len(all_children[n]) > 1

\* C3: no two distinct nodes of the tree have the same path.
C3_UniquePaths ==
  \A i, j \in Nodes : nodes[i].path = nodes[j].path => i = j

\* The children of n the filter rule keeps for pattern p.
FilterRule(n, p) ==
  { c \in Range(all_children[n]) :
      Len(p) = 0 \/ nodes[c].is_dir \/ Contains(nodes[c].name_lower, p) }

\* C4: after apply_filter on the root with pattern p, every directory node of
\* the tree, whatever its ancestors are, has in visible_children exactly the
\* children of all_children that the rule keeps: p is empty, or the child is a
\* directory, or p is a substring of the child's lower-cased name.
C4_EveryDirectoryFiltered ==
  last.op = "apply_filter" =>
    \A n \in Nodes :
       nodes[n].is_dir => Range(visible_children[n]) = FilterRule(n, last.arg)

\* C5: every directory child of a node is in that node's visible_children,
\* whatever loads, filters and sorts have run.
C5_DirectoriesStayVisible ==
  \A n \in Nodes :
     \A c \in Range(all_children[n]) :
        nodes[c].is_dir => c \in Range(visible_children[n])

\* C5's case: a filter with a non-empty pattern has run, and some directory
\* whose name does not match and whose children are all hidden is still
\* among its parent's visible_children.
C5_Witness ==
  /\ last.op = "apply_filter"
  /\ Len(last.arg) > 0
  /\ \E n \in Nodes : \E d \in Range(visible_children[n]) :
        /\ nodes[d].is_dir
        /\ ~Contains(nodes[d].name_lower, last.arg)
        /\ Len(all_children[d]) > 0
        /\ Len(visible_children[d]) = 0

IsMixed(list) ==
  /\ \E i \in 1..Len(list) : nodes[list[i]].is_dir
  /\ \E i \in 1..Len(list) : ~nodes[list[i]].is_dir

\* All directories of the list come before all files.
DirsBeforeFiles(list) ==
  \A i, j \in 1..Len(list) :
     (nodes[list[i]].is_dir /\ ~nodes[list[j]].is_dir) => i < j

\* All files of the list come before all directories.
FilesBeforeDirs(list) ==
  \A i, j \in 1..Len(list) :
     (~nodes[list[i]].is_dir /\ nodes[list[j]].is_dir) => i < j

\* Within the directories and within the files, lower-cased names ascend
\* (descending = FALSE) or descend (descending = TRUE).
GroupsByName(list, descending) ==
  \A i, j \in 1..Len(list) :
     (i < j /\ nodes[list[i]].is_dir = nodes[list[j]].is_dir) =>
        IF descending
          THEN ~StrLess(nodes[list[i]].name_lower, nodes[list[j]].name_lower)
          ELSE ~StrLess(nodes[list[j]].name_lower, nodes[list[i]].name_lower)

NameSortDone ==
  /\ last.op = "sort"
  /\ last.outcome = "sorted"
  /\ last.arg.column = Column.Name

\* C6 as stated: a sort by Name ascending puts the subdirectories before the
\* files, a sort by Name descending puts the files before the subdirectories,
\* and each group is ordered by lower-cased name in the sort's direction.
C6_DescendingFoldersLast ==
  NameSortDone =>
    LET list == visible_children[last.node]
        desc == last.arg.order = "DescendingOrder"
    IN  /\ GroupsByName(list, desc)
        /\ IF desc THEN FilesBeforeDirs(list) ELSE DirsBeforeFiles(list)

\* C6 amended: a sort by Name that is carried out puts the subdirectories
\* before the files in both directions, each group ordered by lower-cased
\* name, ascending or descending as the sort's direction says.
C6_FoldersAlwaysFirst ==
  NameSortDone =>
    LET list == visible_children[last.node]
        desc == last.arg.order = "DescendingOrder"
    IN  /\ GroupsByName(list, desc)
        /\ DirsBeforeFiles(list)

\* C6's case: a descending sort by Name was carried out on a node whose
\* visible children are a directory and two files with different names.
C6_Witness ==
  /\ NameSortDone
  /\ last.arg.order = "DescendingOrder"
  /\ IsMixed(visible_children[last.node])
  /\ \E c, d \in Range(visible_children[last.node]) :
        /\ ~nodes[c].is_dir /\ ~nodes[d].is_dir
        /\ StrLess(nodes[c].name_lower, nodes[d].name_lower)

\* C7: a sort with a column outside Column ends in an error for every node
\* and leaves the node's visible_children and current_sort_state as they were.
C7_UnknownColumnFails ==
  [][ (last'.op = "sort" /\ last'.arg.column = UnknownColumn) =>
        /\ last'.outcome = "error"
        /\ visible_children' = visible_children
        /\ current_sort_state' = current_sort_state ]_vars

\* The index the model now gives node n, invalid when n is not among its
\* parent's visible_children.
IndexOf(n) ==
  IF n = root_node THEN InvalidIndex
  ELSE LET row == ListIndex(visible_children[nodes[n].parent], n)
       IN  IF row < 0 THEN InvalidIndex ELSE createIndex(row, n)

\* The nodes tree_view reports as expanded.
ExpandedNodes == { n \in Nodes : IndexOf(n).valid /\ IndexOf(n) \in expanded }

\* C8: after save_expansion_state, the whole-tree sort and
\* restore_expansion_state, the set of expanded nodes equals the set that
\* save_expansion_state captured.
C8_ExpansionRoundTrip ==
  last.op = "on_section_clicked" => ExpandedNodes = last.arg

\* C9: a fetchMore call never decreases the node's fetched_items.
C9_FetchNeverDecreases ==
  [][ last'.op = "fetchMore" =>
        fetched_items'[last'.node] >= fetched_items[last'.node] ]_vars

\* C10: apply_filter applied a second time in a row with the same pattern
\* leaves visible_children of every node, membership and order, as the first
\* application left it.
C10_FilterIdempotent ==
  [][ (last.op = "apply_filter" /\ last'.op = "apply_filter" /\ last'.arg = last.arg)
        => visible_children' = visible_children ]_vars

\* C10's case: the same non-empty pattern has been applied twice in a row and
\* hides a child of some node.
C10_Witness ==
  /\ last.op = "apply_filter"
  /\ last.again
  /\ Len(last.arg) > 0
  /\ \E n \in Nodes : Len(visible_children[n]) < Len(all_children[n])

\* The path load_hdfs_file knows a node by: the root is registered in
\* node_map as Path("/") while its own path attribute is Path().
PathOf(n) == IF n = root_node THEN Slash ELSE nodes[n].path

\* The parent path of a path with at least two parts.
ParentPath(p) == SubSeq(p, 1, Len(p) - 1)

\* n is reached from the root by following all_children.
RECURSIVE ReachableFromRoot(_)
ReachableFromRoot(n) ==
  \/ n = root_node
  \/ /\ nodes[n].parent # NoParent
     /\ n \in Range(all_children[nodes[n].parent])
     /\ ReachableFromRoot(nodes[n].parent)

\* A node load synthesized for an ancestor directory: no metadata.
IsPlaceholder(n) == n # root_node /\ Len(nodes[n].permissions) = 0

\* The last operation was a load into a fresh tree.
FreshLoad == last.op = "load" /\ calls = 1

\* C11: after a load into a fresh tree every entry has a node with its path
\* that is reached from the root through all_children, every proper ancestor
\* of an entry's path has a node, every node but the root is a child of a node
\* standing for its parent path (the root stands for "/"), and no ancestor
\* directory was synthesized twice, so that a directory with entries below two
\* subdirectories has exactly those two children.
C11_LoadBuildsPaths ==
  FreshLoad =>
    /\ \A i \in 1..Len(last.arg) :
          /\ \E n \in Nodes : nodes[n].path = last.arg[i].path /\ ReachableFromRoot(n)
          /\ \A k \in 1..(Len(last.arg[i].path) - 1) :
                \E n \in Nodes : PathOf(n) = SubSeq(last.arg[i].path, 1, k)
    /\ \A n \in Nodes \ { root_node } :
          /\ n \in Range(all_children[nodes[n].parent])
          /\ PathOf(nodes[n].parent) = ParentPath(nodes[n].path)
    /\ \A m, n \in Nodes :
          (IsPlaceholder(m) /\ IsPlaceholder(n) /\ nodes[m].path = nodes[n].path) => m = n

\* C11's case: a fresh load of several entries synthesized a directory two
\* levels below the root next to files of its parent directory.
C11_Witness ==
  /\ FreshLoad
  /\ Len(last.arg) > 1
  /\ \E n \in Nodes :
        /\ IsPlaceholder(n)
        /\ Len(nodes[n].path) = 3
        /\ Len(all_children[nodes[n].parent]) > 2

\* C12: a load into an existing tree creates no second node for an ancestor
\* directory that already had a node, and hangs every entry whose parent
\* directory already had a node under a node that existed before the load;
\* this for every entry of the file list and every depth.
C12_ExistingAncestorsReused ==
  [][ (last'.op = "load" /\ model) =>
        \A i \in 1..Len(last'.arg) :
           LET path == last'.arg[i].path
               had(a) == \E n \in Nodes : nodes[n].path = a
               created == (Len(nodes) + 1)..Len(nodes')
           IN  /\ \A k \in 2..(Len(path) - 1) :
                     had(SubSeq(path, 1, k)) =>
                        \A m \in created :
                           ~(Len(nodes'[m].permissions) = 0
                             /\ nodes'[m].path = SubSeq(path, 1, k))
               /\ (Len(path) > 2 /\ had(ParentPath(path))) =>
                     \A m \in created :
                        nodes'[m].path = path => nodes'[m].parent \in Nodes ]_vars

\* The visible children of n are in the order of sort specification s: no
\* child stands before one that s puts strictly ahead of it.
OrderedBy(n, s) ==
  LET list == visible_children[n]
      key(c) == sort_key(Tree, c, s)
      ahead(k1, k2) == IF s.order = "DescendingOrder" THEN KeyLess(k2, k1)
                                                      ELSE KeyLess(k1, k2)
  IN  \A i, j \in 1..Len(list) :
         i < j => ~ahead(key(list[j]), key(list[i]))

\* The directories the view shows expanded: expanded, and so is every
\* ancestor.
ShownExpanded ==
  { n \in ExpandedNodes : nodes[n].is_dir /\ Shown(IndexOf(n)) }

\* C13: after a click on a header section with sort specification S, the root
\* level and every expanded directory whose ancestors are all expanded, if it
\* has more than one visible child, has its visible_children ordered by S.
C13_WholeTreeSorted ==
  last.op = "on_section_clicked" =>
    \A n \in ShownExpanded \cup { root_node } :
       Len(visible_children[n]) > 1 => OrderedBy(n, sorting[1])

\* C14: a second sort of the same node with an equal Sorting (equal column and
\* order), right after a first one that returned, leaves visible_children in
\* the order the first call produced and current_sort_state equal to that
\* Sorting.
C14_SecondSortKeepsOrder ==
  [][ ( /\ last.op = "sort" /\ last.outcome # "error"
        /\ last'.op = "sort" /\ last'.node = last.node /\ last'.arg = last.arg )
        => /\ visible_children' = visible_children
           /\ current_sort_state'[last.node] = Some(last.arg) ]_vars

\* C14's case: the second of two equal sorts in a row has returned, on a node
\* whose several visible children the first one had reordered.
C14_Witness ==
  /\ last.op = "sort"
  /\ last.again
  /\ last.outcome = "skipped"
  /\ Len(visible_children[last.node]) > 1
  /\ visible_children[last.node] # all_children[last.node]

\* The elements common to both lists stand in the same relative order in both.
SameRelativeOrder(before, after) ==
  \A i, j \in 1..Len(after) :
     (i < j /\ after[i] \in Range(before) /\ after[j] \in Range(before)) =>
        ListIndex(before, after[i]) < ListIndex(before, after[j])

\* C15: apply_filter leaves the surviving elements of every node's
\* visible_children in the relative order they had right before the filter,
\* and leaves current_sort_state of every node unchanged.
C15_FilterKeepsOrder ==
  [][ last'.op = "apply_filter" =>
        /\ \A n \in Nodes : SameRelativeOrder(visible_children[n], visible_children'[n])
        /\ current_sort_state' = current_sort_state ]_vars

\* C16: append_child resets the parent's current_sort_state.  A load step
\* leaves every node it appended children to either without sort state or,
\* where the load went on to sort the node, ordered by the recorded Sorting
\* with the new children in place, also when that Sorting is the one the node
\* was sorted by before the load; and a sort of a node without sort state is
\* not skipped and ends with visible_children ordered by its Sorting.
C16_AppendResetsSortState ==
  [][ /\ last'.op = "load" =>
           \A n \in Nodes :
              Len(all_children'[n]) > Len(all_children[n]) =>
                 \/ current_sort_state'[n] = None
                 \/ (OrderedBy(n, current_sort_state[n][1]))'
      /\ (last'.op = "sort" /\ current_sort_state[last'.node] = None) =>
           /\ last'.outcome # "skipped"
           /\ last'.outcome = "sorted" =>
                 /\ current_sort_state'[last'.node] = Some(last'.arg)
                 /\ (OrderedBy(last.node, last.arg))' ]_vars

\* C16's case: a second load appended children to a directory that the first
\* load had filled and sorted, and the directory is sorted again.
C16_Witness ==
  /\ last.op = "load"
  /\ calls = 2
  /\ \E entries \in FileLists :
        LET first == load_tree(EmptyTree, FALSE, entries).nodes
            k     == Len(first)
        IN  /\ k < Len(nodes)
            /\ SubSeq(nodes, 1, k) = first
            /\ \E n \in 1..k :
                  /\ current_sort_state[n] # None
                  /\ visible_children[n] # all_children[n]
                  /\ \E c, d \in Range(all_children[n]) : c < d /\ d <= k
                  /\ \E c \in Range(all_children[n]) : c > k

Min(a, b) == IF a <= b THEN a ELSE b

\* C17: on a node with fetched_items = f below the number n of its visible
\* children, one fetchMore sets fetched_items to min(f + BATCH, n) and
\* signals the insertion of the rows f .. min(f + BATCH, n) - 1, the rows by
\* which rowCount grows.
C17_FetchMoreExtends ==
  [][ ( /\ last'.op = "fetchMore"
        /\ fetched_items[last'.node] < Len(visible_children[last'.node]) ) =>
        LET node == last'.node
            f    == fetched_items[node]
            n    == Len(visible_children[node])
            idx  == createIndex(0, node)
        IN  /\ fetched_items'[node] = Min(f + BATCH, n)
            /\ last'.arg = << f, Min(f + BATCH, n) - 1 >>
            /\ rowCount(Tree, idx) = f
            /\ rowCount(Tree', idx) = Min(f + BATCH, n) ]_vars

\* C17's case: a fetchMore on a node with more visible children than were
\* fetched, and fewer than one further batch left, has brought fetched_items
\* to the number of visible children.
C17_Witness ==
  /\ last.op = "fetchMore"
  /\ last.arg[1] < Len(visible_children[last.node])
  /\ last.arg[1] + BATCH > Len(visible_children[last.node])
  /\ fetched_items[last.node] = Len(visible_children[last.node])

\* C18: whenever a node records a Sorting in current_sort_state, its
\* visible_children is ordered by that Sorting, so that a sort the guard skips
\* would not have changed the order.
C18_SortGuardSound ==
  \A n \in Nodes :
     current_sort_state[n] # None => OrderedBy(n, current_sort_state[n][1])

\* C19: for every index of the model, the invalid index of the root included,
\* canFetchMore is true exactly when rowCount is below the number of visible
\* children, so that fetching while canFetchMore holds ends with every visible
\* child in a row.
C19_CanFetchMoreIffRowsMissing ==
  model =>
    \A idx \in Indexes \cup { InvalidIndex } :
       canFetchMore(Tree, idx) <=>
          rowCount(Tree, idx) < Len(visible_children[p_item(idx)])

\* n is reached from the root through nodes that are each the only child of
\* their parent.
RECURSIVE OnSingleChildChain(_)
OnSingleChildChain(n) ==
  /\ n # root_node
  /\ Len(all_children[nodes[n].parent]) = 1
  /\ (nodes[n].parent = root_node \/ OnSingleChildChain(nodes[n].parent))

\* C20: after a load into a fresh tree the expanded nodes are the nodes with
\* children on the single-child chain from the root: every expanded node lies
\* on that chain, none of them has a sibling, and the expansion goes down the
\* chain until a level that does not have exactly one child.
C20_AutoExpansionOnChain ==
  FreshLoad =>
    expanded = { createIndex(0, n) :
                   n \in { m \in Nodes : OnSingleChildChain(m)
                                         /\ Len(all_children[m]) > 0 } }

\* C20's case: a fresh load expanded a directory and stopped at a level with
\* several children.
C20_Witness ==
  /\ FreshLoad
  /\ expanded # { }
  /\ \E n \in Nodes : n # root_node /\ Len(all_children[n]) > 1

====
